---------------------------- MODULE Spec2Model ----------------------------
(***************************************************************************)
(* A model of picasso's three-dimensional particle averaging window        *)
(* (src/picasso/gui/average3.py): the point set, the group index, the      *)
(* bounding radius state and the macro-operations centre of mass, rotate,  *)
(* translate and convolution-rotate with their per-group steps.            *)
(*                                                                         *)
(* Numbers.  Coordinates are integers (pixel units).  The results of a     *)
(* division or a square root, which the program rounds to the nearest      *)
(* double, are rounded here to an integer: FloorDiv rounds down, CeilSqrt  *)
(* rounds up.  Angles are counted in steps of a_step, and a_step is a      *)
(* quarter turn, where rotate_axis is exact on integers.                   *)
(***************************************************************************)
EXTENDS Integers, Sequences, FiniteSets, TLC

(***************************************************************************)
(* Bounds of the model.                                                    *)
(***************************************************************************)
MaxChannels == 2
MaxOps == 2
(* the pixel size the user enters in the pixelsize dialog *)
Pixelsize == 2
MaxOversampling == 1
MaxDegree == 1
(* the channels of the sessions with more channels than MaxChannels *)
WideChannels == 3

MaxSide == 3

MaxPixels == 2

MaxCoord == 1

(* angles per full turn: np.arange(0, 2*pi, a_step) with a_step = pi/2 *)
FullTurn == 4

(***************************************************************************)
(* Arithmetic helpers.                                                     *)
(***************************************************************************)
Abs(a) == IF a < 0 THEN -a ELSE a

Min2(a, b) == IF a <= b THEN a ELSE b

Max2(a, b) == IF a >= b THEN a ELSE b

(* floor(a / b) for b > 0 *)
FloorDiv(a, b) == a \div b

(* ceil(a / b) for b > 0 *)
CeilDiv(a, b) == -((-a) \div b)

(* a mod n in 0..n-1 for n > 0 *)
Mod(a, n) == a % n

(* the least integer whose square is at least q, q >= 0 *)
CeilSqrt(q) == CHOOSE s \in 0..(q + 1) : s * s >= q /\ (s = 0 \/ (s - 1) * (s - 1) < q)

RECURSIVE SumSeq(_)
SumSeq(s) == IF s = << >> THEN 0 ELSE Head(s) + SumSeq(Tail(s))

RECURSIVE MinSeq(_)
MinSeq(s) == IF Len(s) = 1 THEN s[1] ELSE Min2(Head(s), MinSeq(Tail(s)))

RECURSIVE MaxSeq(_)
MaxSeq(s) == IF Len(s) = 1 THEN s[1] ELSE Max2(Head(s), MaxSeq(Tail(s)))

(* np.mean of a non-empty sequence *)
Mean(s) == FloorDiv(SumSeq(s), Len(s))

(* np.argmax: the first index (from 1) holding the maximum *)
argmax(s) == CHOOSE i \in 1..Len(s) : (\A j \in 1..Len(s) : s[j] <= s[i]) /\ (\A j \in 1..(i - 1) : s[j] < s[i])

(* the elements of a set of integers in ascending order *)
RECURSIVE SortSet(_)
SortSet(S) == IF S = {} THEN << >> ELSE LET m == CHOOSE a \in S : \A b \in S : a <= b IN <<m>> \o SortSet(S \ {m})

Col(ls, f) == [i \in 1..Len(ls) |-> ls[i][f]]

(***************************************************************************)
(* The files the user can open.  A file is a table of localizations; it    *)
(* may lack the group column or the z column.                              *)
(***************************************************************************)
Loc(x, y, z, g) == [x |-> x, y |-> y, z |-> z, group |-> g]

Files ==
  << [hasgroup |-> TRUE, hasz |-> TRUE,
      locs |-> << Loc(4, 4, 2, 0), Loc(6, 4, 2, 0), Loc(4, 5, 2, 0),
                  Loc(5, 3, 4, 1), Loc(5, 5, 4, 1), Loc(4, 3, 4, 1) >>],
     [hasgroup |-> TRUE, hasz |-> TRUE,
      locs |-> << Loc(3, 5, 0, 1), Loc(5, 5, 0, 1), Loc(3, 6, 0, 1),
                  Loc(4, 4, 2, 2), Loc(6, 4, 2, 2),
                  Loc(7, 7, 4, 3) >>],
     [hasgroup |-> TRUE, hasz |-> FALSE,
      locs |-> << Loc(1, 3, 0, 0), Loc(3, 3, 0, 0) >>],
     [hasgroup |-> FALSE, hasz |-> TRUE,
      locs |-> << Loc(1, 1, 1, 0), Loc(2, 2, 2, 0) >>] >>

Paths == 1..Len(Files)

VARIABLES
  locs,          \* self.locs: per channel, the sequence of localizations
  group_index,   \* self.group_index: per channel, the rows (index sets) of the sparse matrix
  checks,        \* self.dataset_dialog.checks: per channel, isChecked()
  n_groups,      \* self.n_groups
  pixelsize,     \* self.pixelsize (0 before it is set)
  oversampling,  \* self.oversampling
  bounds,        \* self.t_min, self.t_max, self.z_min, self.z_max
  radius,        \* self.r, self.r_z and whether the attribute r exists
  phase,         \* the position of the running macro-operation
  op,            \* the locals of the running macro-operation
  last,          \* what the last per-group step did, or the message box of the last load (history)
  done,          \* the rows processed by the running or last macro-operation (history)
  error,         \* the exception that ended the last handler, "" if none
  nops           \* macro-operations started so far

vars == <<locs, group_index, checks, n_groups, pixelsize, oversampling, bounds, radius, phase, op, last, done, error, nops>>

n_channels == Len(locs)


(***************************************************************************)
(* rotate_axis on one localization, angle in quarter turns.                *)
(***************************************************************************)
Cos(angle) == <<1, 0, -1, 0>>[Mod(angle, FullTurn) + 1]

Sin(angle) == <<0, 1, 0, -1>>[Mod(angle, FullTurn) + 1]

rotate_axis_same_sign(axis, p, angle, px) ==
  CASE axis = "z" -> [p EXCEPT !.x = Cos(angle) * p.x - Sin(angle) * p.y,
                               !.y = Sin(angle) * p.x + Cos(angle) * p.y]
    [] axis = "y" -> [p EXCEPT !.x = Cos(angle) * p.x + Sin(angle) * FloorDiv(p.z, px),
                               !.z = Sin(angle) * p.x * px + Cos(angle) * p.z]
    [] axis = "x" -> [p EXCEPT !.y = Cos(angle) * p.y - Sin(angle) * FloorDiv(p.z, px),
                               !.z = Sin(angle) * p.y * px + Cos(angle) * p.z]

rotate_axis(axis, p, angle, px) ==
  CASE axis = "z" -> [p EXCEPT !.x = Cos(angle) * p.x - Sin(angle) * p.y,
                               !.y = Sin(angle) * p.x + Cos(angle) * p.y]
    [] axis = "y" -> [p EXCEPT !.x = Cos(angle) * p.x + Sin(angle) * FloorDiv(p.z, px),
                               !.z = (-Sin(angle)) * p.x * px + Cos(angle) * p.z]
    [] axis = "x" -> [p EXCEPT !.y = Cos(angle) * p.y - Sin(angle) * FloorDiv(p.z, px),
                               !.z = Sin(angle) * p.y * px + Cos(angle) * p.z]

(***************************************************************************)
(* Images.  An image is its shape (nb rows, na columns) and the function   *)
(* w from its non-zero pixels <<b, a>> to their values.                    *)
(***************************************************************************)
Range(s) == {s[i] : i \in DOMAIN s}

SelectIdx(s, Test(_)) == SortSet({i \in DOMAIN s : Test(s[i])})

(* render._fill: every point adds one to the pixel (int(b), int(a)) *)
fill(pix) == [p \in Range(pix) |-> Cardinality({i \in DOMAIN pix : pix[i] = p})]

render_histxyz_floor_shape(ab, os, a_min, a_max, b_min, b_max, bden) ==
  LET in_view == SelectIdx(ab, LAMBDA q : q.a > a_min /\ q.b > b_min /\ q.a < a_max /\ q.b < b_max)
      pix == [i \in 1..Len(in_view) |->
                <<FloorDiv(os * (ab[in_view[i]].b - b_min), bden), os * (ab[in_view[i]].a - a_min)>>]
  IN [n  |-> Len(in_view),
      nb |-> FloorDiv(os * (b_max - b_min), bden),
      na |-> os * (a_max - a_min),
      w  |-> fill(pix)]

render_histxyz_closed(ab, os, a_min, a_max, b_min, b_max, bden) ==
  LET in_view == SelectIdx(ab, LAMBDA q : q.a >= a_min /\ q.b >= b_min /\ q.a <= a_max /\ q.b <= b_max)
      pix == [i \in 1..Len(in_view) |->
                <<FloorDiv(os * (ab[in_view[i]].b - b_min), bden), os * (ab[in_view[i]].a - a_min)>>]
  IN [n  |-> Len(in_view),
      nb |-> CeilDiv(os * (b_max - b_min), bden),
      na |-> os * (a_max - a_min),
      w  |-> fill(pix)]

(* render_histxyz on the plane coordinates a, b = bnum / bden of the points; *)
(* the bounds of b are bmin / bden and bmax / bden                           *)
render_histxyz(ab, os, a_min, a_max, b_min, b_max, bden) ==
  LET in_view == SelectIdx(ab, LAMBDA q : q.a > a_min /\ q.b > b_min /\ q.a < a_max /\ q.b < b_max)
      pix == [i \in 1..Len(in_view) |->
                <<FloorDiv(os * (ab[in_view[i]].b - b_min), bden), os * (ab[in_view[i]].a - a_min)>>]
  IN [n  |-> Len(in_view),
      nb |-> CeilDiv(os * (b_max - b_min), bden),
      na |-> os * (a_max - a_min),
      w  |-> fill(pix)]

(* render_hist: the square image of x and y with the same bounds on both axes *)
render_hist(xy, os, t_min, t_max) ==
  LET in_view == SelectIdx(xy, LAMBDA q : q.a > t_min /\ q.b > t_min /\ q.a < t_max /\ q.b < t_max)
      pix == [i \in 1..Len(in_view) |-> <<os * (xy[in_view[i]].b - t_min), os * (xy[in_view[i]].a - t_min)>>]
  IN [n  |-> Len(in_view),
      nb |-> os * (t_max - t_min),
      na |-> os * (t_max - t_min),
      w  |-> fill(pix)]

(* render_planes: the two coordinates of the plane, z divided by pixelsize *)
render_planes(ls, proplane, px, os, bd) ==
  CASE proplane = "xy" ->
         render_histxyz([i \in 1..Len(ls) |-> [a |-> ls[i].x, b |-> ls[i].y]],
                        os, bd.t_min, bd.t_max, bd.t_min, bd.t_max, 1)
    [] proplane = "yz" ->
         render_histxyz([i \in 1..Len(ls) |-> [a |-> ls[i].y, b |-> ls[i].z]],
                        os, bd.t_min, bd.t_max, bd.z_min, bd.z_max, px)
    [] proplane = "xz" ->
         render_histxyz([i \in 1..Len(ls) |-> [a |-> ls[i].x, b |-> ls[i].z]],
                        os, bd.t_min, bd.t_max, bd.z_min, bd.z_max, px)

(* render.render_hist3d summed along the axis normal to the plane: the     *)
(* points inside the bounds on all three axes, binned on the plane         *)
render_hist3d(ls, proplane, px, os, bd) ==
  LET in3d == SelectIdx(ls, LAMBDA p : p.x > bd.t_min /\ p.x < bd.t_max /\ p.y > bd.t_min /\ p.y < bd.t_max
                                        /\ p.z > bd.z_min /\ p.z < bd.z_max)
  IN render_planes([i \in 1..Len(in3d) |-> ls[in3d[i]]], proplane, px, os, bd)

(***************************************************************************)
(* compute_xcorr and the search of its brightest pixel.                    *)
(* ifft2(fft2(image) * conj(fft2(ref)))[s] = SUM_p ref[p] * image[p + s]   *)
(* (indices modulo the shape); fftshift moves s to (s + n \div 2) mod n.   *)
(***************************************************************************)
RECURSIVE SumOver(_, _)
SumOver(S, f) == IF S = {} THEN 0 ELSE LET e == CHOOSE e \in S : TRUE IN f[e] + SumOver(S \ {e}, f)

(* the shift (modulo the shape) from a reference pixel to an image pixel *)
PairShift(pq, nb, na) == <<Mod(pq[2][1] - pq[1][1], nb), Mod(pq[2][2] - pq[1][2], na)>>

(* xcorr before fftshift, at shift s *)
corr_at(ref, image, s) ==
  LET pairs == {pq \in (DOMAIN ref.w) \X (DOMAIN image.w) : PairShift(pq, image.nb, image.na) = s}
  IN SumOver(pairs, [pq \in pairs |-> ref.w[pq[1]] * image.w[pq[2]]])

(* the non-zero values of xcorr before fftshift, by shift *)
compute_xcorr(ref, image) ==
  [s \in {PairShift(pq, image.nb, image.na) : pq \in (DOMAIN ref.w) \X (DOMAIN image.w)} |-> corr_at(ref, image, s)]

(* fftshift: where shift s lands in xcorr *)
fftshift(s, nb, na) == <<Mod(s[1] + (nb \div 2), nb), Mod(s[2] + (na \div 2), na)>>

(* np.unravel_index(xcorr.argmax(), xcorr.shape): the brightest pixel, the *)
(* first one in row-major order; an all-zero xcorr has it at <<0, 0>>      *)
brightest(xcorr, nb, na) ==
  IF DOMAIN xcorr = {} THEN [b_max |-> 0, a_max |-> 0, value |-> 0]
  ELSE LET key == [s \in DOMAIN xcorr |-> fftshift(s, nb, na)[1] * na + fftshift(s, nb, na)[2]]
           best == CHOOSE s \in DOMAIN xcorr :
                     \A t \in DOMAIN xcorr : xcorr[t] < xcorr[s] \/ (xcorr[t] = xcorr[s] /\ key[s] <= key[t])
       IN [b_max |-> fftshift(best, nb, na)[1], a_max |-> fftshift(best, nb, na)[2], value |-> xcorr[best]]

xcorr_peak(ref, image) ==
  CHOOSE peak \in {brightest(xcorr, image.nb, image.na) : xcorr \in {compute_xcorr(ref, image)}} : TRUE

(***************************************************************************)
(* Image arithmetic of the symmetry builder and of the scalar scores.      *)
(***************************************************************************)
(* image + other, pixel by pixel (same shape) *)
image_add(image, other) ==
  [image EXCEPT !.w = [p \in (DOMAIN image.w) \cup (DOMAIN other.w) |->
                         (IF p \in DOMAIN image.w THEN image.w[p] ELSE 0)
                         + (IF p \in DOMAIN other.w THEN other.w[p] ELSE 0)]]

(* where the pixel p lands when the image turns by angle about its centre; *)
(* twice the offsets from the centre keep the arithmetic in integers       *)
turn_pixel(p, nb, na, angle) ==
  LET B == 2 * p[1] - (nb - 1)
      A == 2 * p[2] - (na - 1)
  IN <<FloorDiv(Cos(angle) * B - Sin(angle) * A + (nb - 1), 2),
       FloorDiv(Sin(angle) * B + Cos(angle) * A + (na - 1), 2)>>

(* scipy.ndimage.interpolation.rotate(image, angle, axes=(1, 0), reshape=False): *)
(* the shape is kept, what leaves it is lost                                      *)
ndimage_rotate(image, angle) ==
  LET inside == {p \in DOMAIN image.w :
                   /\ turn_pixel(p, image.nb, image.na, angle)[1] \in 0..(image.nb - 1)
                   /\ turn_pixel(p, image.nb, image.na, angle)[2] \in 0..(image.na - 1)}
      target == {turn_pixel(p, image.nb, image.na, angle) : p \in inside}
  IN [image EXCEPT !.w = [q \in target |->
        SumOver({p \in inside : turn_pixel(p, image.nb, image.na, angle) = q}, image.w)]]

(* image += rotate(imageold, angle) for every angle of the list *)
RECURSIVE symmetrize(_, _, _)
symmetrize(image, imageold, degrees) ==
  IF degrees = << >> THEN image
  ELSE symmetrize(image_add(image, ndimage_rotate(imageold, Head(degrees))), imageold, Tail(degrees))

(* np.sum(np.multiply(CF_image_avg[j], image)) *)
product_sum(ref, image) ==
  LET both == (DOMAIN ref.w) \cap (DOMAIN image.w)
  IN SumOver(both, [p \in both |-> ref.w[p] * image.w[p]])

(* np.sum(image, axis=0): the profile along a; np.sum(image, axis=1): along b *)
profile(image, axis) ==
  LET coord(p) == IF axis = 0 THEN p[2] ELSE p[1]
      support == {coord(p) : p \in DOMAIN image.w}
  IN [n |-> IF axis = 0 THEN image.na ELSE image.nb,
      w |-> [c \in support |-> SumOver({p \in DOMAIN image.w : coord(p) = c}, image.w)]]

(* signal.correlate(signalimg, projection): its maximum and the lag       *)
(* argmax - len(signalimg) + 1 of the first maximum                       *)
correlate_peak(signalimg, projection) ==
  LET lags == {l[1] - l[2] : l \in (DOMAIN signalimg.w) \X (DOMAIN projection.w)}
      val == [d \in lags |->
                LET pairs == {l \in (DOMAIN signalimg.w) \X (DOMAIN projection.w) : l[1] - l[2] = d}
                IN SumOver(pairs, [l \in pairs |-> signalimg.w[l[1]] * projection.w[l[2]]])]
  IN IF lags = {} THEN [corrval |-> 0, shiftval |-> 1 - signalimg.n]
     ELSE LET best == CHOOSE d \in lags : \A e \in lags : val[e] < val[d] \/ (val[e] = val[d] /\ d <= e)
          IN [corrval |-> val[best], shiftval |-> best]

(***************************************************************************)
(* The state after construction (Window.__init__).                         *)
(***************************************************************************)
NoOp == [name |-> "none"]

NoLast == [name |-> "none"]

Init ==
  /\ locs = << >>
  /\ group_index = << >>
  /\ checks = << >>
  /\ n_groups = 0
  /\ pixelsize = 0
  /\ oversampling = 0
  /\ bounds = [t_min |-> 0, t_max |-> 0, z_min |-> 0, z_max |-> 0]
  /\ radius = [def |-> FALSE, r |-> 0, r_z |-> 0]
  /\ phase = "Idle"
  /\ op = NoOp
  /\ last = NoLast
  /\ done = << >>
  /\ error = ""
  /\ nops = 0

(***************************************************************************)
(* Window.add: load a file as a new channel.                               *)
(***************************************************************************)
(* np.unique(locs.group): the group ids in ascending order *)
unique_groups(ls) == SortSet({ls[i].group : i \in 1..Len(ls)})

(* a group index whose rows stop one localization short of the end *)
build_group_index_short(ls) ==
  LET groups == unique_groups(ls)
  IN [i \in 1..Len(groups) |-> {k \in 1..(Len(ls) - 1) : ls[k].group = groups[i]}]

(* CREATE GROUP INDEX: row i holds the indices whose group is groups[i] *)
build_group_index(ls) ==
  LET groups == unique_groups(ls)
  IN [i \in 1..Len(groups) |-> {k \in 1..Len(ls) : ls[k].group = groups[i]}]

(* the bounds after a load: of the first channel, or merged with the old ones *)
bounds_after_add(ls, first, bd) ==
  LET lo == Min2(MinSeq(Col(ls, "x")), MinSeq(Col(ls, "y")))
      hi == Max2(MaxSeq(Col(ls, "x")), MaxSeq(Col(ls, "y")))
      zlo == MinSeq(Col(ls, "z"))
      zhi == MaxSeq(Col(ls, "z"))
  IN IF first
     THEN [t_min |-> lo, t_max |-> hi, z_min |-> zlo, z_max |-> zhi]
     ELSE [t_min |-> Min2(lo, bd.t_min), t_max |-> Max2(hi, bd.t_max),
           z_min |-> Min2(zlo, bd.z_min), z_max |-> Min2(zhi, bd.z_max)]

(* a file without z gets a z column that is a copy of x *)
with_z(f) == IF f.hasz THEN f.locs ELSE [i \in 1..Len(f.locs) |-> [f.locs[i] EXCEPT !.z = f.locs[i].x]]

(* self.pixelsize after the load; answer is what the user enters in the dialog *)
pixelsize_after_add(f, px0, answer) ==
  IF ~f.hasz THEN 1 ELSE IF px0 = 0 THEN answer ELSE px0

add_within_ungrouped(path, limit) ==
  /\ phase = "Idle"
  /\ Len(locs) < limit
  /\ locs' = Append(locs, with_z(Files[path]))
  /\ checks' = Append(checks, TRUE)
  /\ error' = ""
  /\ UNCHANGED <<group_index, n_groups, pixelsize, oversampling, bounds, radius, phase, op, last, done, nops>>

add_within(path, limit) ==
  /\ phase = "Idle"
  /\ Len(locs) < limit
  /\ LET f == Files[path]
         px0 == IF Len(locs) = 0 THEN 0 ELSE pixelsize
     IN IF ~f.hasgroup
        THEN /\ pixelsize' = px0
             /\ error' = ""
             /\ last' = [name |-> "msgBox"]
             /\ UNCHANGED <<locs, group_index, checks, n_groups, oversampling, bounds, radius, phase, op, done, nops>>
        ELSE \E answer \in {Pixelsize} :
               LET ls == with_z(f) IN
               /\ pixelsize' = pixelsize_after_add(f, px0, answer)
               /\ locs' = Append(locs, ls)
               /\ checks' = Append(checks, TRUE)
               /\ oversampling' = 1
               /\ bounds' = bounds_after_add(ls, Len(locs) = 0, bounds)
               /\ group_index' = Append(group_index, build_group_index(ls))
               /\ n_groups' = Len(unique_groups(ls))
               /\ error' = ""
               /\ UNCHANGED <<radius, phase, op, last, done, nops>>

(* Window.add, for as many channels as the model holds *)
add(path) == add_within(path, MaxChannels)

(***************************************************************************)
(* A dataset check box is toggled; stateChanged runs updateLayout, which   *)
(* reads the oversampling of the parameters dialog (hist_multi_channel).   *)
(***************************************************************************)
toggle_check(j) ==
  /\ phase = "Idle"
  /\ j \in 1..Len(locs)
  /\ \E v \in 1..MaxOversampling :
       /\ checks' = [checks EXCEPT ![j] = ~checks[j]]
       /\ oversampling' = v
  /\ error' = ""
  /\ UNCHANGED <<locs, group_index, n_groups, pixelsize, bounds, radius, phase, op, last, done, nops>>


(***************************************************************************)
(* What the per-group steps share.                                         *)
(***************************************************************************)
(* an index set that runs one localization past the end of the row *)
index_of_overrun(j, row) ==
  group_index[j][row] \cup {k + 1 : k \in {i \in group_index[j][row] : i < Len(locs[j])}}

(* self.group_index[j][group].nonzero()[1]; the row exists *)
index_of(j, row) == group_index[j][row]

(* the row is outside channel j's matrix: IndexError *)
no_row(j, row) == row > Len(group_index[j])

(* the members of the row in channel j, in index order *)
members(ls, idx) == LET o == SortSet(idx) IN [k \in 1..Len(o) |-> ls[o[k]]]

(* the row the loop body works on: for i in range(n_groups) takes the rows *)
(* in ascending order; an order, where one is given, takes its place      *)
current_row == IF "order" \in DOMAIN op THEN op.order[op.i + 1] ELSE op.i + 1

(* a handler ends with an exception: the Qt event loop goes on *)
raise(name) ==
  /\ error' = name
  /\ phase' = "Idle"
  /\ op' = NoOp

(* updateLayout: self.oversampling becomes the value of the parameters dialog *)
updateLayout == \E v \in 1..MaxOversampling : oversampling' = v

(***************************************************************************)
(* Window.centerofmass                                                     *)
(***************************************************************************)
centerofmass_begin ==
  /\ phase = "Idle"
  /\ nops < MaxOps
  /\ nops' = nops + 1
  /\ IF Len(locs) = 0
     THEN /\ raise("AttributeError")
          /\ UNCHANGED <<locs, group_index, checks, n_groups, pixelsize, oversampling, bounds, radius, last, done>>
     ELSE /\ phase' = "IteratingGroups"
          /\ op' = [name |-> "centerofmass", start |-> locs, i |-> 0, n_groups |-> n_groups]
          /\ done' = << >>
          /\ last' = NoLast
          /\ error' = ""
          /\ UNCHANGED <<locs, group_index, checks, n_groups, pixelsize, oversampling, bounds, radius>>

(* the coordinate f of the row's members, stacked over the channels *)
RECURSIVE stack_arrays(_, _, _)
stack_arrays(j, row, f) ==
  IF j > n_channels THEN << >>
  ELSE Col(members(locs[j], index_of(j, row)), f) \o stack_arrays(j + 1, row, f)

(* the channels that take part in the centroid *)
centroid(row, f) == Mean(stack_arrays(1, row, f))

centerofmass_group ==
  /\ phase = "IteratingGroups"
  /\ op.name = "centerofmass"
  /\ op.i < op.n_groups
  /\ LET row == current_row IN
     IF \E j \in 1..n_channels : no_row(j, row)
     THEN /\ raise("IndexError")
          /\ UNCHANGED <<locs, last, done>>
     ELSE LET mean_x == centroid(row, "x")
              mean_y == centroid(row, "y")
              mean_z == centroid(row, "z")
          IN /\ locs' = [j \in 1..n_channels |->
                           [k \in 1..Len(locs[j]) |->
                              IF k \in index_of(j, row)
                              THEN [locs[j][k] EXCEPT !.x = @ - mean_x, !.y = @ - mean_y, !.z = @ - mean_z]
                              ELSE locs[j][k]]]
             /\ op' = [op EXCEPT !.i = @ + 1]
             /\ done' = Append(done, row)
             /\ last' = [name |-> "centerofmass", row |-> row, before |-> locs]
             /\ UNCHANGED <<phase, error>>
  /\ UNCHANGED <<group_index, checks, n_groups, pixelsize, oversampling, bounds, radius, nops>>

(* 3 * sqrt(mean(x^2 + y^2)) and 5 * sqrt(mean(z^2)) of one channel *)
rms_r(ls) == CeilSqrt(CeilDiv(9 * SumSeq([k \in 1..Len(ls) |-> ls[k].x * ls[k].x + ls[k].y * ls[k].y]), Len(ls)))

rms_r_z(ls) == CeilSqrt(CeilDiv(25 * SumSeq([k \in 1..Len(ls) |-> ls[k].z * ls[k].z]), Len(ls)))

proper_r_first == rms_r(locs[1])

(* CALCULATE PROPER R VALUES *)
proper_r == MaxSeq(<<0>> \o [j \in 1..n_channels |-> rms_r(locs[j])])

proper_r_z == MaxSeq(<<0>> \o [j \in 1..n_channels |-> rms_r_z(locs[j])])

centerofmass_end ==
  /\ phase = "IteratingGroups"
  /\ op.name = "centerofmass"
  /\ op.i = op.n_groups
  /\ radius' = [def |-> TRUE, r |-> proper_r, r_z |-> proper_r_z]
  /\ bounds' = [t_min |-> -proper_r, t_max |-> proper_r, z_min |-> -proper_r_z, z_max |-> proper_r_z]
  /\ updateLayout
  /\ phase' = "Idle"
  /\ op' = NoOp
  /\ last' = NoLast
  /\ UNCHANGED <<locs, group_index, checks, n_groups, pixelsize, done, error, nops>>

(***************************************************************************)
(* Window.rotate_groups and Window.align_group                             *)
(***************************************************************************)
Axes == {"x", "y", "z"}

Planes == {"xy", "yz", "xz"}

(* np.arange(lo, hi, a_step) in steps of a_step *)
arange(lo, hi) == [k \in 1..(hi - lo) |-> lo + k - 1]

(* the candidate angles: the full turn, or -degree .. degree *)
candidate_angles(full, degree) == IF full THEN arange(0, FullTurn) ELSE arange(-degree, degree)

(* what the handlers read before they render: group_index[0], self.r, a_step *)
begin_error ==
  IF Len(locs) = 0 THEN "IndexError"
  ELSE IF ~radius.def THEN "AttributeError"
  ELSE IF oversampling * radius.r < 1 THEN "ValueError"
  ELSE ""

(* the radio buttons "x symmetry", "custom symmetry" and "Translate only"  *)
(* share one parent, so at most one of them is checked                    *)
Modes == {"none", "sym", "custom", "translate"}

(* symEdit values whose rotations (i+1)*360/symmetry are quarter turns *)
SymmetryValues == {2}

(* symcustomEdit texts: a list of degrees (in quarter turns), or text float() rejects *)
CustomTexts == {[ok |-> TRUE, degrees |-> <<1>>], [ok |-> FALSE, degrees |-> << >>]}

(* the inputs of a handler that the mode does not read are fixed *)
ModeInputs(mode, symmetry, custom) ==
  /\ mode = "sym" \/ symmetry = 2
  /\ mode = "custom" \/ custom.ok

(* the rotations of the x symmetry option *)
symmetry_degrees(symmetry) == [i \in 1..(symmetry - 1) |-> FloorDiv(i * FullTurn, symmetry)]

rotate_groups_begin(rotaxis, proplane, full, degree, mode, symmetry, custom) ==
  /\ phase = "Idle"
  /\ nops < MaxOps
  /\ ModeInputs(mode, symmetry, custom)
  /\ nops' = nops + 1
  /\ IF begin_error # ""
     THEN /\ raise(begin_error)
          /\ UNCHANGED <<last, done>>
     ELSE /\ phase' = "RenderingReference"
          /\ op' = [name |-> "rotate", start |-> locs, i |-> 0, n_groups |-> Len(group_index[1]),
                    rotaxis |-> rotaxis, proplane |-> proplane,
                    angles |-> candidate_angles(full, degree), translate |-> (mode = "translate"),
                    mode |-> mode, symmetry |-> symmetry, custom |-> custom,
                    CF_image_avg |-> << >>]
          /\ done' = << >>
          /\ last' = NoLast
          /\ error' = ""
  /\ UNCHANGED <<locs, group_index, checks, n_groups, pixelsize, oversampling, bounds, radius>>

(* the reference templates: one projection per channel of the whole cloud *)
reference_images(proplane) ==
  [j \in 1..n_channels |-> render_hist3d(locs[j], proplane, pixelsize, oversampling, bounds)]

(* Change CFimage for symmetry: only image[0] is symmetrized *)
symmetry_images(image, mode, symmetry, custom) ==
  LET degrees == IF mode = "sym" THEN symmetry_degrees(symmetry)
                 ELSE IF mode = "custom" THEN custom.degrees ELSE << >>
  IN [j \in 1..Len(image) |-> IF j = 1 THEN symmetrize(image[1], image[1], degrees) ELSE image[j]]

(* np.fft.fft2 refuses an image without pixels *)
empty_shape(image) == image.nb = 0 \/ image.na = 0

rotate_groups_render ==
  /\ phase = "RenderingReference"
  /\ op.name = "rotate"
  /\ \E image \in {reference_images(op.proplane)} :
     IF (op.mode = "custom" /\ ~op.custom.ok) \/ (\E j \in 1..n_channels : empty_shape(image[j]))
     THEN raise("ValueError")
     ELSE /\ op' = [op EXCEPT !.CF_image_avg = symmetry_images(image, op.mode, op.symmetry, op.custom)]
          /\ phase' = "IteratingGroups"
          /\ UNCHANGED error
  /\ UNCHANGED <<locs, group_index, checks, n_groups, pixelsize, oversampling, bounds, radius, last, done, nops>>

peak_shift_floor(peak, n, os) == FloorDiv(FloorDiv(2 * peak - n, 2), os)

(* the offset of the brightest pixel from the image centre, in coordinate units *)
peak_shift(peak, n, os) == FloorDiv(CeilDiv(2 * peak - n, 2), os)

(* the group of channel j rotated by angle and rendered on the plane *)
group_image(j, row, rotaxis, proplane, angle) ==
  LET g == members(locs[j], index_of(j, row))
  IN render_planes([k \in 1..Len(g) |-> rotate_axis(rotaxis, g[k], angle, pixelsize)],
                   proplane, pixelsize, oversampling, bounds)

(* the channels whose check box is set *)
enabled == {j \in 1..n_channels : checks[j]}

(* the angles the scoring loop leaves in the local variable angles *)
scored_angles(angles, translate) == IF translate /\ enabled # {} THEN <<0>> ELSE angles

(* the score and the shifts of one rendered image against the reference *)
peak_entry(ref, image, os) ==
  CHOOSE e \in {[xcorr |-> peak.value,
                 da |-> peak_shift(peak.a_max, image.na, os),
                 db |-> peak_shift(peak.b_max, image.nb, os)] : peak \in {xcorr_peak(ref, image)}} : TRUE

(* one entry of all_xcorr, all_da, all_db: zero unless channel j is checked and k was scored *)
xcorr_entry(CF, j, row, rotaxis, proplane, angles, k) ==
  IF j \in enabled /\ k <= Len(angles)
  THEN CHOOSE e \in {peak_entry(CF[j], image, oversampling) :
                       image \in {group_image(j, row, rotaxis, proplane, angles[k])}} : TRUE
  ELSE [xcorr |-> 0, da |-> 0, db |-> 0]

(* the tables of align_group: n_angles rows, n_channels columns *)
xcorr_table(CF, row, rotaxis, proplane, n_angles, angles) ==
  [k \in 1..n_angles |-> [j \in 1..n_channels |-> xcorr_entry(CF, j, row, rotaxis, proplane, angles, k)]]

(* np.argmin in the place of np.argmax: the candidate with the smallest summed score *)
maximumcc_of_argmin(table) ==
  LET sums == [k \in 1..Len(table) |-> SumSeq([j \in 1..n_channels |-> table[k][j].xcorr])]
  IN CHOOSE k \in 1..Len(table) : \A l \in 1..Len(table) : sums[k] < sums[l] \/ (sums[k] = sums[l] /\ k <= l)

(* np.argmax(np.sum(all_xcorr, axis = 1)) *)
maximumcc_of(table) == argmax([k \in 1..Len(table) |-> SumSeq([j \in 1..n_channels |-> table[k][j].xcorr])])

(* np.mean(all_da[maximumcc, :]) *)
dafinal_of(table, k) == Mean([j \in 1..n_channels |-> table[k][j].da])

dbfinal_of(table, k) == Mean([j \in 1..n_channels |-> table[k][j].db])

(* Shift image group locs *)
shift_loc(p, proplane, da, db, px) ==
  CASE proplane = "xy" -> [p EXCEPT !.x = @ - da, !.y = @ - db]
    [] proplane = "yz" -> [p EXCEPT !.y = @ - da, !.z = @ - db * px]
    [] proplane = "xz" -> [p EXCEPT !.z = @ - da, !.x = @ - db * px]

(* the channels the write-back loop reaches before a missing row stops it *)
written_channels(row) == {j \in 1..n_channels : \A i \in 1..j : ~no_row(i, row)}

(* a write-back that shifts the checked channels only and rotates them all *)
align_write_checked(j, row, rotaxis, proplane, rotfinal, da, db) ==
  [k \in 1..Len(locs[j]) |->
     IF k \notin index_of(j, row) THEN locs[j][k]
     ELSE IF checks[j]
     THEN shift_loc(rotate_axis(rotaxis, locs[j][k], rotfinal, pixelsize), proplane, da, db, pixelsize)
     ELSE rotate_axis(rotaxis, locs[j][k], rotfinal, pixelsize)]

(* the write-back of align_group to channel j: rotate and shift image group locs *)
align_write(j, row, rotaxis, proplane, rotfinal, da, db) ==
  [k \in 1..Len(locs[j]) |->
     IF k \in index_of(j, row)
     THEN shift_loc(rotate_axis(rotaxis, locs[j][k], rotfinal, pixelsize), proplane, da, db, pixelsize)
     ELSE locs[j][k]]

align_group ==
  /\ phase = "IteratingGroups"
  /\ op.name = "rotate"
  /\ op.i < op.n_groups
  /\ LET row == current_row IN
     IF \E j \in enabled : no_row(j, row)
     THEN /\ raise("IndexError")
          /\ UNCHANGED <<locs, last, done>>
     ELSE \E angles \in {scored_angles(op.angles, op.translate)} :
          \E table \in {xcorr_table(op.CF_image_avg, row, op.rotaxis, op.proplane, Len(op.angles), angles)} :
          \E maximumcc \in {maximumcc_of(table)} :
          \E rotfinal \in {angles[maximumcc]} :
          \E dafinal \in {dafinal_of(table, maximumcc)} :
          \E dbfinal \in {IF op.translate THEN 0 ELSE dbfinal_of(table, maximumcc)} :
          \E written \in {written_channels(row)} :
             /\ locs' = [j \in 1..n_channels |->
                           IF j \in written
                           THEN align_write(j, row, op.rotaxis, op.proplane, rotfinal, dafinal, dbfinal)
                           ELSE locs[j]]
             /\ last' = [name |-> "align_group", row |-> row, before |-> locs, angles |-> angles,
                         table |-> table, maximumcc |-> maximumcc, rotfinal |-> rotfinal,
                         dafinal |-> dafinal, dbfinal |-> dbfinal, written |-> written]
             /\ done' = Append(done, row)
             /\ IF written = 1..n_channels
                THEN /\ op' = [op EXCEPT !.i = @ + 1]
                     /\ UNCHANGED <<phase, error>>
                ELSE raise("IndexError")
  /\ UNCHANGED <<group_index, checks, n_groups, pixelsize, oversampling, bounds, radius, nops>>

rotate_groups_end ==
  /\ phase = "IteratingGroups"
  /\ op.name = "rotate"
  /\ op.i = op.n_groups
  /\ updateLayout
  /\ phase' = "Idle"
  /\ op' = NoOp
  /\ last' = NoLast
  /\ UNCHANGED <<locs, group_index, checks, n_groups, pixelsize, bounds, radius, done, error, nops>>

(***************************************************************************)
(* Window.rotatexy_convolution and Window.rotatexy_convolution_group       *)
(***************************************************************************)
rotatexy_convolution_begin(rotaxis, proplane, full, degree, mode, symmetry, custom) ==
  /\ phase = "Idle"
  /\ nops < MaxOps
  /\ ModeInputs(mode, symmetry, custom)
  /\ nops' = nops + 1
  /\ IF begin_error # ""
     THEN /\ raise(begin_error)
          /\ UNCHANGED <<last, done>>
     ELSE /\ phase' = "RenderingReference"
          /\ op' = [name |-> "convolution", start |-> locs, i |-> 0, n_groups |-> Len(group_index[1]),
                    rotaxis |-> rotaxis, proplane |-> proplane,
                    angles |-> candidate_angles(full, degree), translate |-> (mode = "translate"),
                    mode |-> mode, symmetry |-> symmetry, custom |-> custom,
                    CF_image_avg |-> << >>]
          /\ done' = << >>
          /\ last' = NoLast
          /\ error' = ""
  /\ UNCHANGED <<locs, group_index, checks, n_groups, pixelsize, oversampling, bounds, radius>>

rotatexy_convolution_render ==
  /\ phase = "RenderingReference"
  /\ op.name = "convolution"
  /\ \E image \in {reference_images(op.proplane)} :
     IF op.mode = "custom" /\ ~op.custom.ok
     THEN raise("ValueError")
     ELSE /\ op' = [op EXCEPT !.CF_image_avg = symmetry_images(image, op.mode, op.symmetry, op.custom)]
          /\ phase' = "IteratingGroups"
          /\ UNCHANGED error
  /\ UNCHANGED <<locs, group_index, checks, n_groups, pixelsize, oversampling, bounds, radius, last, done, nops>>

(* one entry of all_xcorr: the product sum, zero unless channel j is checked and k was scored *)
convolution_entry(CF, j, row, rotaxis, proplane, angles, k) ==
  IF j \in enabled /\ k <= Len(angles)
  THEN [xcorr |-> product_sum(CF[j], group_image(j, row, rotaxis, proplane, angles[k])), da |-> 0, db |-> 0]
  ELSE [xcorr |-> 0, da |-> 0, db |-> 0]

convolution_table(CF, row, rotaxis, proplane, n_angles, angles) ==
  [k \in 1..n_angles |-> [j \in 1..n_channels |-> convolution_entry(CF, j, row, rotaxis, proplane, angles, k)]]

(* the write-back of rotatexy_convolution_group to one channel *)
rotate_write(ls, idx, rotaxis, rotfinal, px) ==
  [k \in 1..Len(ls) |-> IF k \in idx THEN rotate_axis(rotaxis, ls[k], rotfinal, px) ELSE ls[k]]

rotatexy_convolution_group ==
  /\ phase = "IteratingGroups"
  /\ op.name = "convolution"
  /\ op.i < op.n_groups
  /\ LET row == current_row IN
     IF \E j \in enabled : no_row(j, row)
     THEN /\ raise("IndexError")
          /\ UNCHANGED <<locs, last, done>>
     ELSE \E angles \in {scored_angles(op.angles, op.translate)} :
          \E table \in {convolution_table(op.CF_image_avg, row, op.rotaxis, op.proplane, Len(op.angles), angles)} :
          \E maximumcc \in {maximumcc_of(table)} :
          \E rotfinal \in {angles[maximumcc]} :
          \E written \in {written_channels(row)} :
             /\ locs' = [j \in 1..n_channels |->
                           IF j \in written
                           THEN rotate_write(locs[j], index_of(j, row), op.rotaxis, rotfinal, pixelsize)
                           ELSE locs[j]]
             /\ last' = [name |-> "rotatexy_convolution_group", row |-> row, before |-> locs, angles |-> angles,
                         table |-> table, maximumcc |-> maximumcc, rotfinal |-> rotfinal,
                         dafinal |-> 0, dbfinal |-> 0, written |-> written]
             /\ done' = Append(done, row)
             /\ IF written = 1..n_channels
                THEN /\ op' = [op EXCEPT !.i = @ + 1]
                     /\ UNCHANGED <<phase, error>>
                ELSE raise("IndexError")
  /\ UNCHANGED <<group_index, checks, n_groups, pixelsize, oversampling, bounds, radius, nops>>

rotatexy_convolution_end ==
  /\ phase = "IteratingGroups"
  /\ op.name = "convolution"
  /\ op.i = op.n_groups
  /\ updateLayout
  /\ phase' = "Idle"
  /\ op' = NoOp
  /\ last' = NoLast
  /\ UNCHANGED <<locs, group_index, checks, n_groups, pixelsize, bounds, radius, done, error, nops>>

(***************************************************************************)
(* Window.translate, Window.translate_group and Window.centerofmass_all    *)
(***************************************************************************)
(* the plane translate_group renders and the axis it sums the plane along *)
translate_plane(translateaxis) == IF translateaxis = "z" THEN "xz" ELSE "xy"

translate_sum_axis(translateaxis) == IF translateaxis = "x" THEN 0 ELSE 1

translate_begin(translateaxis) ==
  /\ phase = "Idle"
  /\ nops < MaxOps
  /\ nops' = nops + 1
  /\ IF Len(locs) = 0
     THEN /\ raise("AttributeError")
          /\ UNCHANGED <<last, done>>
     ELSE /\ phase' = "RenderingReference"
          /\ op' = [name |-> "translate", start |-> locs, i |-> 0, n_groups |-> Len(group_index[1]),
                    translateaxis |-> translateaxis, signalimg |-> << >>]
          /\ done' = << >>
          /\ last' = NoLast
          /\ error' = ""
  /\ UNCHANGED <<locs, group_index, checks, n_groups, pixelsize, oversampling, bounds, radius>>

(* signalimg: per channel, the profile of the whole cloud along the axis *)
signal_images(translateaxis) ==
  [j \in 1..n_channels |->
     profile(render_hist3d(locs[j], translate_plane(translateaxis), pixelsize, oversampling, bounds),
             translate_sum_axis(translateaxis))]

translate_render ==
  /\ phase = "RenderingReference"
  /\ op.name = "translate"
  /\ op' = [op EXCEPT !.signalimg = signal_images(op.translateaxis)]
  /\ phase' = "IteratingGroups"
  /\ UNCHANGED <<locs, group_index, checks, n_groups, pixelsize, oversampling, bounds, radius, last, done, error, nops>>

(* one entry of all_xcorr and all_da of translate_group *)
translate_entry(signalimg, j, row, translateaxis) ==
  IF j \in enabled
  THEN CHOOSE e \in {[xcorr |-> peak.corrval, da |-> FloorDiv(peak.shiftval, oversampling), db |-> 0] :
                       peak \in {correlate_peak(signalimg[j],
                                   profile(render_planes(members(locs[j], index_of(j, row)),
                                                         translate_plane(translateaxis), pixelsize, oversampling, bounds),
                                           translate_sum_axis(translateaxis)))}} : TRUE
  ELSE [xcorr |-> 0, da |-> 0, db |-> 0]

translate_table(signalimg, row, translateaxis) ==
  << [j \in 1..n_channels |-> translate_entry(signalimg, j, row, translateaxis)] >>

(* the write-back of translate_group to one channel *)
translate_write(ls, idx, translateaxis, dafinal, px) ==
  [k \in 1..Len(ls) |->
     IF k \notin idx THEN ls[k]
     ELSE CASE translateaxis = "x" -> [ls[k] EXCEPT !.x = @ + dafinal]
            [] translateaxis = "y" -> [ls[k] EXCEPT !.y = @ + dafinal]
            [] translateaxis = "z" -> [ls[k] EXCEPT !.z = @ + dafinal * px]]

translate_group ==
  /\ phase = "IteratingGroups"
  /\ op.name = "translate"
  /\ op.i < op.n_groups
  /\ LET row == current_row IN
     IF \E j \in enabled : no_row(j, row)
     THEN /\ raise("IndexError")
          /\ UNCHANGED <<locs, last, done>>
     ELSE \E table \in {translate_table(op.signalimg, row, op.translateaxis)} :
          \E maximumcc \in {maximumcc_of(table)} :
          \E dafinal \in {dafinal_of(table, maximumcc)} :
          \E written \in {written_channels(row)} :
             /\ locs' = [j \in 1..n_channels |->
                           IF j \in written
                           THEN translate_write(locs[j], index_of(j, row), op.translateaxis, dafinal, pixelsize)
                           ELSE locs[j]]
             /\ last' = [name |-> "translate_group", row |-> row, before |-> locs, angles |-> <<0>>,
                         table |-> table, maximumcc |-> maximumcc, rotfinal |-> 0,
                         dafinal |-> dafinal, dbfinal |-> 0, written |-> written]
             /\ done' = Append(done, row)
             /\ IF written = 1..n_channels
                THEN /\ op' = [op EXCEPT !.i = @ + 1]
                     /\ UNCHANGED <<phase, error>>
                ELSE raise("IndexError")
  /\ UNCHANGED <<group_index, checks, n_groups, pixelsize, oversampling, bounds, radius, nops>>

(* a translate that ends after its group loop, without centerofmass_all *)
translate_loop_end_idle ==
  /\ phase = "IteratingGroups"
  /\ op.name = "translate"
  /\ op.i = op.n_groups
  /\ updateLayout
  /\ phase' = "Idle"
  /\ op' = NoOp
  /\ last' = NoLast
  /\ UNCHANGED <<locs, group_index, checks, n_groups, pixelsize, bounds, radius, done, error, nops>>

(* the group loop of translate is over: centerofmass_all comes next *)
translate_loop_end ==
  /\ phase = "IteratingGroups"
  /\ op.name = "translate"
  /\ op.i = op.n_groups
  /\ phase' = "Recentring"
  /\ UNCHANGED <<locs, group_index, checks, n_groups, pixelsize, oversampling, bounds, radius, op, last, done, error, nops>>

(* the coordinate f of every localization of every channel *)
RECURSIVE stack_all(_, _)
stack_all(j, f) == IF j > n_channels THEN << >> ELSE Col(locs[j], f) \o stack_all(j + 1, f)

(* Align all by center of mass; the bounds are left as they are *)
centerofmass_all ==
  /\ phase = "Recentring"
  /\ op.name = "translate"
  /\ \E mean_x \in {Mean(stack_all(1, "x"))}, mean_y \in {Mean(stack_all(1, "y"))}, mean_z \in {Mean(stack_all(1, "z"))} :
       locs' = [j \in 1..n_channels |->
                  [k \in 1..Len(locs[j]) |->
                     [locs[j][k] EXCEPT !.x = @ - mean_x, !.y = @ - mean_y, !.z = @ - mean_z]]]
  /\ updateLayout
  /\ phase' = "Idle"
  /\ op' = NoOp
  /\ last' = NoLast
  /\ UNCHANGED <<group_index, checks, n_groups, pixelsize, bounds, radius, done, error, nops>>

(***************************************************************************)
(* Window.align_all                                                        *)
(***************************************************************************)
AlignAxes == {"zz", "zy", "y", "x"}

align_proplane(alignaxis) == IF alignaxis \in {"zz", "zy"} THEN "yz" ELSE "xy"

align_rotaxis(alignaxis) == IF alignaxis \in {"zz", "zy"} THEN "x" ELSE "z"

(* the three lines of alignimage: their index, and whether they are rows *)
align_centre(alignaxis, image) == IF alignaxis = "y" THEN image.na \div 2 ELSE image.nb \div 2

align_rows(alignaxis) == alignaxis \in {"zz", "x"}

(* a line of alignimage falls outside the image: IndexError *)
align_outside(alignaxis, image) ==
  LET c == align_centre(alignaxis, image)
      n == IF align_rows(alignaxis) THEN image.nb ELSE image.na
  IN c + 1 >= n

(* np.sum(np.multiply(alignimage, image)) *)
align_score(alignaxis, image) ==
  LET c == align_centre(alignaxis, image)
      coord(p) == IF align_rows(alignaxis) THEN p[1] ELSE p[2]
      weight(p) == IF coord(p) = c THEN 2 ELSE IF Abs(coord(p) - c) = 1 THEN 1 ELSE 0
  IN SumOver(DOMAIN image.w, [p \in DOMAIN image.w |-> weight(p) * image.w[p]])

(* the whole cloud of channel j rotated by angle and rendered *)
align_image(j, alignaxis, angle) ==
  render_planes([k \in 1..Len(locs[j]) |-> rotate_axis(align_rotaxis(alignaxis), locs[j][k], angle, pixelsize)],
                align_proplane(alignaxis), pixelsize, oversampling, bounds)

align_corr(alignaxis, angles) ==
  [k \in 1..Len(angles) |->
     [j \in 1..n_channels |->
        [xcorr |-> IF j \in enabled THEN align_score(alignaxis, align_image(j, alignaxis, angles[k])) ELSE 0]]]

align_all(alignaxis) ==
  /\ phase = "Idle"
  /\ nops < MaxOps
  /\ nops' = nops + 1
  /\ IF ~radius.def THEN /\ raise("AttributeError")
                         /\ UNCHANGED <<locs, oversampling>>
     ELSE IF oversampling * radius.r < 1 THEN /\ raise("ValueError")
                                              /\ UNCHANGED <<locs, oversampling>>
     ELSE IF \E j \in enabled : align_outside(alignaxis, align_image(j, alignaxis, 0))
     THEN /\ raise("IndexError")
          /\ UNCHANGED <<locs, oversampling>>
     ELSE IF enabled = {} /\ n_channels > 0
     THEN /\ raise("UnboundLocalError")
          /\ UNCHANGED <<locs, oversampling>>
     ELSE \E angles \in {arange(0, FullTurn)} :
          \E rotfinal \in {angles[maximumcc_of(align_corr(alignaxis, angles))]} :
            /\ locs' = [j \in 1..n_channels |->
                          [k \in 1..Len(locs[j]) |->
                             rotate_axis(align_rotaxis(alignaxis), locs[j][k], rotfinal, pixelsize)]]
            /\ updateLayout
            /\ phase' = "Idle"
            /\ op' = NoOp
            /\ error' = ""
  /\ last' = NoLast
  /\ done' = << >>
  /\ UNCHANGED <<group_index, checks, n_groups, pixelsize, bounds, radius>>

Next ==
  \/ \E path \in Paths : add(path)
  \/ \E j \in 1..MaxChannels : toggle_check(j)
  \/ centerofmass_begin
  \/ centerofmass_group
  \/ centerofmass_end
  \/ \E rotaxis \in Axes, proplane \in Planes, full \in BOOLEAN, degree \in 1..MaxDegree,
        mode \in Modes, symmetry \in SymmetryValues, custom \in CustomTexts :
       rotate_groups_begin(rotaxis, proplane, full, degree, mode, symmetry, custom)
  \/ rotate_groups_render
  \/ align_group
  \/ rotate_groups_end
  \/ \E rotaxis \in Axes, proplane \in Planes, full \in BOOLEAN, degree \in 1..MaxDegree,
        mode \in Modes, symmetry \in SymmetryValues, custom \in CustomTexts :
       rotatexy_convolution_begin(rotaxis, proplane, full, degree, mode, symmetry, custom)
  \/ rotatexy_convolution_render
  \/ rotatexy_convolution_group
  \/ rotatexy_convolution_end
  \/ \E translateaxis \in Axes : translate_begin(translateaxis)
  \/ translate_render
  \/ translate_group
  \/ translate_loop_end
  \/ centerofmass_all
  \/ \E alignaxis \in AlignAxes : align_all(alignaxis)

Spec == Init /\ [][Next]_vars

(***************************************************************************)
(* The group loop run a second time in another order.  When a loop has     *)
(* worked through all its rows, replay_rewind keeps its result, restores   *)
(* the coordinates the loop started from and lets the same steps run over  *)
(* the rows in a permuted order.                                           *)
(***************************************************************************)
LoopNames == {"centerofmass", "rotate", "convolution", "translate"}

(* the orders of the rows 1..n other than the ascending one *)
OtherOrders(n) ==
  {o \in [1..n -> 1..n] : (\A a, b \in 1..n : a # b => o[a] # o[b]) /\ (\E a \in 1..n : o[a] # a)}

(* the loop is about to start and will be run a second time *)
replay_mark ==
  /\ phase = "IteratingGroups"
  /\ op.name \in LoopNames
  /\ op.i = 0
  /\ op.n_groups > 1
  /\ "pass" \notin DOMAIN op
  /\ op' = op @@ [pass |-> 1]
  /\ UNCHANGED <<locs, group_index, checks, n_groups, pixelsize, oversampling, bounds, radius,
                 phase, last, done, error, nops>>

(* the loop is through: keep its result and run it again in another order *)
replay_rewind ==
  /\ phase = "IteratingGroups"
  /\ "pass" \in DOMAIN op
  /\ op.pass = 1
  /\ op.i = op.n_groups
  /\ \E order \in OtherOrders(op.n_groups) :
       op' = [op EXCEPT !.pass = 2, !.i = 0] @@ [order |-> order, result |-> locs]
  /\ locs' = op.start
  /\ last' = NoLast
  /\ done' = << >>
  /\ UNCHANGED <<group_index, checks, n_groups, pixelsize, oversampling, bounds, radius, phase, error, nops>>

NextOrder == Next \/ replay_mark \/ replay_rewind

SpecOrder == Init /\ [][NextOrder]_vars

(***************************************************************************)
(* Sessions with up to WideChannels channels, loaded from two of the files *)
(* and translated.                                                        *)
(***************************************************************************)
WidePaths == {1, 3}

NextWide ==
  \/ \E path \in WidePaths : add_within(path, WideChannels)
  \/ \E j \in 1..WideChannels : toggle_check(j)
  \/ \E translateaxis \in Axes : translate_begin(translateaxis)
  \/ translate_render
  \/ translate_group
  \/ translate_loop_end
  \/ centerofmass_all

SpecWide == Init /\ [][NextWide]_vars

(***************************************************************************)
(* The scoring loop of align_group and rotatexy_convolution_group taken    *)
(* one statement at a time: the copies x_original, y_original, z_original  *)
(* of the group in channel tj, then one rotate_axis per candidate angle;   *)
(* the choice of the winner and the write-back follow when every checked   *)
(* channel has been scored.                                                *)
(***************************************************************************)
TrialLoops == {"rotate", "convolution"}

trial_running ==
  /\ phase = "IteratingGroups"
  /\ op.name \in TrialLoops
  /\ op.i < op.n_groups
  /\ "trow" \in DOMAIN op
  /\ op.trow = current_row

(* the loop body is entered for the next group *)
trial_start ==
  /\ phase = "IteratingGroups"
  /\ op.name \in TrialLoops
  /\ op.i < op.n_groups
  /\ ~trial_running
  /\ op' = [trow |-> current_row, tstart |-> locs, tj |-> 1, copied |-> FALSE, tk |-> 0,
            original |-> << >>, rot |-> << >>] @@ op
  /\ UNCHANGED <<locs, group_index, checks, n_groups, pixelsize, oversampling, bounds, radius, phase,
                 last, done, error, nops>>

(* for j in range(n_channels): if checked, index and the three copies *)
trial_copy ==
  /\ trial_running
  /\ op.tj <= n_channels
  /\ ~op.copied
  /\ IF ~checks[op.tj]
     THEN /\ op' = [op EXCEPT !.tj = @ + 1]
          /\ UNCHANGED <<phase, error>>
     ELSE IF no_row(op.tj, op.trow)
     THEN raise("IndexError")
     ELSE /\ op' = [op EXCEPT !.copied = TRUE, !.tk = 0,
                              !.original = members(locs[op.tj], index_of(op.tj, op.trow))]
          /\ UNCHANGED <<phase, error>>
  /\ UNCHANGED <<locs, group_index, checks, n_groups, pixelsize, oversampling, bounds, radius,
                 last, done, nops>>

(* the group of channel tj as rotate_axis returns it for the next angle *)
trial_rotated ==
  LET angles == scored_angles(op.angles, op.translate)
  IN [k \in 1..Len(op.original) |-> rotate_axis(op.rotaxis, op.original[k], angles[op.tk + 1], pixelsize)]

(* the locals after one more angle; the channel is left after the last one *)
trial_advance(rot) ==
  IF op.tk + 1 = Len(scored_angles(op.angles, op.translate))
  THEN [op EXCEPT !.rot = rot, !.tk = 0, !.copied = FALSE, !.tj = @ + 1]
  ELSE [op EXCEPT !.rot = rot, !.tk = @ + 1]

trial_rotate_in_place ==
  /\ trial_running
  /\ op.copied
  /\ \E rot \in {trial_rotated} : \E o \in {SortSet(index_of(op.tj, op.trow))} :
       /\ op' = trial_advance(rot)
       /\ locs' = [locs EXCEPT ![op.tj] =
                     [i \in 1..Len(locs[op.tj]) |->
                        IF i \in Range(o) THEN rot[CHOOSE k \in 1..Len(o) : o[k] = i] ELSE locs[op.tj][i]]]
  /\ UNCHANGED <<group_index, checks, n_groups, pixelsize, oversampling, bounds, radius, phase,
                 last, done, error, nops>>

(* for k in range(n_angles): x_rot, y_rot, z_rot = rotate_axis(.. x_original ..) *)
trial_rotate ==
  /\ trial_running
  /\ op.copied
  /\ \E rot \in {trial_rotated} : op' = trial_advance(rot)
  /\ UNCHANGED <<locs, group_index, checks, n_groups, pixelsize, oversampling, bounds, radius, phase,
                 last, done, error, nops>>

(* argmax over the table, then the write-back *)
trial_chosen ==
  /\ trial_running
  /\ op.tj > n_channels
  /\ \/ align_group
     \/ rotatexy_convolution_group

NextTrial ==
  \/ \E path \in Paths : add(path)
  \/ \E j \in 1..MaxChannels : toggle_check(j)
  \/ centerofmass_begin
  \/ centerofmass_group
  \/ centerofmass_end
  \/ \E rotaxis \in Axes, proplane \in Planes, full \in BOOLEAN, degree \in 1..MaxDegree,
        mode \in Modes, symmetry \in SymmetryValues, custom \in CustomTexts :
       rotate_groups_begin(rotaxis, proplane, full, degree, mode, symmetry, custom)
  \/ rotate_groups_render
  \/ rotate_groups_end
  \/ \E rotaxis \in Axes, proplane \in Planes, full \in BOOLEAN, degree \in 1..MaxDegree,
        mode \in Modes, symmetry \in SymmetryValues, custom \in CustomTexts :
       rotatexy_convolution_begin(rotaxis, proplane, full, degree, mode, symmetry, custom)
  \/ rotatexy_convolution_render
  \/ rotatexy_convolution_end
  \/ trial_start
  \/ trial_copy
  \/ trial_rotate
  \/ trial_chosen

SpecTrial == Init /\ [][NextTrial]_vars

(***************************************************************************)
(* The module-level functions on their own: the inputs are drawn from      *)
(* bounded sets into op, one step applies the function and records what it *)
(* returned in last.                                                       *)
(***************************************************************************)
Frame(nb, na) == (0..(nb - 1)) \X (0..(na - 1))

(* the images of shape nb x na with one to MaxPixels pixels set to one *)
Images(nb, na) ==
  {[n |-> Cardinality(S), nb |-> nb, na |-> na, w |-> [p \in S |-> 1]] :
     S \in {S \in SUBSET Frame(nb, na) : S # {} /\ Cardinality(S) <= MaxPixels}}

(* the image moved by db rows and da columns *)
shifted(image, db, da) ==
  [image EXCEPT !.w = [q \in {<<p[1] + db, p[2] + da>> : p \in DOMAIN image.w} |->
                         image.w[<<q[1] - db, q[2] - da>>]]]

in_frame(image) == DOMAIN image.w \subseteq Frame(image.nb, image.na)

(* a reference, the same image moved by whole pixels inside the frame, and *)
(* the oversampling that both were rendered with                           *)
xcorr_inputs ==
  {[name |-> "compute_xcorr", ref |-> t[1], image |-> shifted(t[1], t[2][1], t[2][2]),
    db |-> t[2][1], da |-> t[2][2], os |-> t[3]] :
     t \in {t \in (UNION {Images(nb, na) : nb \in 2..MaxSide, na \in 2..MaxSide})
                   \X ((-MaxSide..MaxSide) \X (-MaxSide..MaxSide)) \X (1..MaxOversampling) :
              /\ in_frame(shifted(t[1], t[2][1], t[2][2]))
              /\ t[2][1] % t[3] = 0
              /\ t[2][2] % t[3] = 0}}

(* an axis, an angle in quarter turns, a pixel size and one localization   *)
(* whose z is a whole number of pixels, so that vz / pixelsize is exact    *)
rotate_inputs ==
  {[name |-> "rotate_axis", axis |-> t[1], angle |-> t[2], pixelsize |-> t[3],
    v |-> Loc(t[4][1], t[4][2], t[3] * t[4][3], 0)] :
     t \in Axes \X (0..(FullTurn - 1)) \X (1..Pixelsize)
           \X ((-MaxCoord..MaxCoord) \X (-MaxCoord..MaxCoord) \X (-MaxCoord..MaxCoord))}

(* the sequences of one to n elements of S *)
SeqsUpTo(S, n) == UNION {[1..k -> S] : k \in 1..n}

(* points a, b = bnum / bden, an oversampling and the bounds of the two    *)
(* axes (those of b as numerators over bden)                               *)
render_inputs ==
  {[name |-> "render_histxyz", ab |-> t[1], os |-> t[2], bden |-> t[3],
    a_min |-> t[4][1], a_max |-> t[4][2], b_min |-> t[5][1], b_max |-> t[5][2]] :
     t \in SeqsUpTo([a : -MaxCoord..MaxCoord, b : -MaxCoord..MaxCoord], MaxPixels)
           \X (1..MaxOversampling) \X (1..Pixelsize)
           \X ((-MaxCoord..0) \X (0..MaxCoord)) \X (((-2 * MaxCoord)..0) \X (0..MaxCoord))}

(* points x, y, an oversampling and the bounds shared by the two axes *)
render_hist_inputs ==
  {[name |-> "render_hist", xy |-> t[1], os |-> t[2], t_min |-> t[3][1], t_max |-> t[3][2]] :
     t \in SeqsUpTo([a : -MaxCoord..MaxCoord, b : -MaxCoord..MaxCoord], MaxPixels)
           \X (1..MaxOversampling) \X (((-2 * MaxCoord)..0) \X (0..(2 * MaxCoord)))}

UnitInputs == xcorr_inputs \cup rotate_inputs \cup render_inputs \cup render_hist_inputs

InitUnit ==
  /\ locs = << >>
  /\ group_index = << >>
  /\ checks = << >>
  /\ n_groups = 0
  /\ pixelsize = 0
  /\ oversampling = 0
  /\ bounds = [t_min |-> 0, t_max |-> 0, z_min |-> 0, z_max |-> 0]
  /\ radius = [def |-> FALSE, r |-> 0, r_z |-> 0]
  /\ phase = "Idle"
  /\ op \in UnitInputs
  /\ last = NoLast
  /\ done = << >>
  /\ error = ""
  /\ nops = 0

(* align_group 1285-1296: compute_xcorr, the brightest pixel, its offset *)
peak_search ==
  /\ op.name = "compute_xcorr"
  /\ last = NoLast
  /\ last' = [name |-> "peak_search", entry |-> peak_entry(op.ref, op.image, op.os)]
  /\ UNCHANGED <<locs, group_index, checks, n_groups, pixelsize, oversampling, bounds, radius, phase, op,
                 done, error, nops>>

(* rotate_axis by angle, then rotate_axis of what it returned by -angle *)
rotate_and_back ==
  /\ op.name = "rotate_axis"
  /\ last = NoLast
  /\ \E rot \in {rotate_axis(op.axis, op.v, op.angle, op.pixelsize)} :
       last' = [name |-> "rotate_and_back", rot |-> rot,
                back |-> rotate_axis(op.axis, rot, -op.angle, op.pixelsize)]
  /\ UNCHANGED <<locs, group_index, checks, n_groups, pixelsize, oversampling, bounds, radius, phase, op,
                 done, error, nops>>

render_call ==
  /\ op.name = "render_histxyz"
  /\ last = NoLast
  /\ last' = [name |-> "render_histxyz",
              image |-> render_histxyz(op.ab, op.os, op.a_min, op.a_max, op.b_min, op.b_max, op.bden)]
  /\ UNCHANGED <<locs, group_index, checks, n_groups, pixelsize, oversampling, bounds, radius, phase, op,
                 done, error, nops>>

render_hist_call ==
  /\ op.name = "render_hist"
  /\ last = NoLast
  /\ last' = [name |-> "render_hist", image |-> render_hist(op.xy, op.os, op.t_min, op.t_max)]
  /\ UNCHANGED <<locs, group_index, checks, n_groups, pixelsize, oversampling, bounds, radius, phase, op,
                 done, error, nops>>

NextUnit ==
  \/ peak_search
  \/ rotate_and_back
  \/ render_call
  \/ render_hist_call

SpecUnit == InitUnit /\ [][NextUnit]_vars

(***************************************************************************)
(* Properties of the per-group steps.  last records the step that has just *)
(* run: the row it worked on, the coordinates before it, and its locals.   *)
(***************************************************************************)
(* the step name has just run inside the macro-operation that is under way *)
stepped(name) == phase = "IteratingGroups" /\ last.name = name

(* the score of candidate k summed over the enabled channels *)
enabled_score(table, k) == SumOver(enabled, [j \in enabled |-> table[k][j].xcorr])

(* the mean over the enabled channels of the shifts of candidate k *)
enabled_mean_da(table, k) == FloorDiv(SumOver(enabled, [j \in enabled |-> table[k][j].da]), Cardinality(enabled))

enabled_mean_db(table, k) == FloorDiv(SumOver(enabled, [j \in enabled |-> table[k][j].db]), Cardinality(enabled))

(* the points of the row of channel j that a rendering on the plane keeps *)
points_in_bounds(ls, j, row, proplane) ==
  render_planes(members(ls[j], index_of(j, row)), proplane, pixelsize, oversampling, bounds).n

(* C1: align_group applies the candidate angle whose score summed over the *)
(* enabled channels is maximal over all candidates, and a disabled channel *)
(* contributes zero to the sum at every candidate.                         *)
C1_WinningAngleMaximisesEnabledScore ==
  stepped("align_group") =>
    /\ \A k \in 1..Len(last.table) :
         /\ enabled_score(last.table, k) <= enabled_score(last.table, last.maximumcc)
         /\ \A j \in (1..n_channels) \ enabled : last.table[k][j].xcorr = 0
    /\ last.rotfinal = last.angles[last.maximumcc]
    /\ \A j \in 1..n_channels : \A k \in index_of(j, last.row) :
         locs[j][k] = shift_loc(rotate_axis(op.rotaxis, last.before[j][k], last.rotfinal, pixelsize),
                                op.proplane, last.dafinal, last.dbfinal, pixelsize)

(* a step in which a later candidate beat the first one, with one channel disabled *)
C1_Witness ==
  /\ stepped("align_group")
  /\ enabled # {}
  /\ enabled # 1..n_channels
  /\ last.maximumcc > 1
  /\ enabled_score(last.table, 1) < enabled_score(last.table, last.maximumcc)

(* C2: the translation applied by align_group and by translate_group is    *)
(* the mean of the shifts of the enabled channels only.                    *)
C2_ShiftIsMeanOverEnabledChannels ==
  /\ stepped("align_group") /\ enabled # {} =>
       /\ last.dafinal = enabled_mean_da(last.table, last.maximumcc)
       /\ ~op.translate => last.dbfinal = enabled_mean_db(last.table, last.maximumcc)
  /\ stepped("translate_group") /\ enabled # {} =>
       last.dafinal = enabled_mean_da(last.table, last.maximumcc)

C4_DegenerateGroupLeftUnchanged ==
  stepped("align_group") /\ enabled # {}
    /\ (\A j \in enabled : points_in_bounds(last.before, j, last.row, op.proplane) < 2)
  => locs = last.before

(* the steps that work on one row of the group index *)
GroupSteps == {"centerofmass", "align_group", "translate_group", "rotatexy_convolution_group"}

(* C5: the index sets a per-group step selects in the different channels   *)
(* all carry one and the same group id.                                    *)
C5_RowCarriesOneGroupId ==
  \A name \in GroupSteps :
    stepped(name) =>
      \A i, j \in 1..n_channels :
        \A k \in index_of(i, last.row) : \A l \in index_of(j, last.row) :
          locs[i][k].group = locs[j][l].group

(* the group ids present in any loaded channel, in ascending order *)
all_group_ids == SortSet(UNION {{locs[j][k].group : k \in 1..Len(locs[j])} : j \in 1..n_channels})

(* the group ids the step on the row has worked on *)
ids_of_row(row) ==
  UNION {{locs[j][k].group : k \in group_index[j][row]} : j \in {c \in 1..n_channels : row <= Len(group_index[c])}}

(* C6: when the loop of rotate or of centre of mass is over, every group   *)
(* id present in any channel has been processed exactly once, in ascending *)
(* order of the group ids.                                                 *)
C6_EveryGroupIdProcessedOnceAscending ==
  phase = "IteratingGroups" /\ op.name \in {"rotate", "centerofmass"} /\ op.i = op.n_groups =>
    /\ Len(done) = Len(all_group_ids)
    /\ \A k \in 1..Len(done) : ids_of_row(done[k]) = {all_group_ids[k]}

(* C7: in every channel the rows of the group index are pairwise disjoint, *)
(* their union is the whole index range of the channel (1..n here, 0..n-1  *)
(* in the program), and each row holds exactly the indices of one group id, *)
(* a different one for each row.                                           *)
C7_GroupIndexPartitionsChannel ==
  \A j \in 1..n_channels :
    /\ \A a, b \in 1..Len(group_index[j]) : a # b => group_index[j][a] \cap group_index[j][b] = {}
    /\ UNION {group_index[j][a] : a \in 1..Len(group_index[j])} = 1..Len(locs[j])
    /\ \A a \in 1..Len(group_index[j]) :
         \E g \in {locs[j][k].group : k \in 1..Len(locs[j])} :
           group_index[j][a] = {k \in 1..Len(locs[j]) : locs[j][k].group = g}

(* two channels with several groups each, after a macro-operation moved them *)
C7_Witness ==
  /\ n_channels = 2
  /\ Len(group_index[1]) > 1
  /\ Len(group_index[2]) > 1
  /\ phase = "Idle"
  /\ done # << >>
  /\ radius.def

C9_RadiusDefinedAfterLoad == Len(locs) > 0 => radius.def

(* C10: with translate only set, the rotation align_group applies is 0.    *)
C10_TranslateOnlyAppliesAngleZero ==
  stepped("align_group") /\ op.translate => last.rotfinal = 0


(* C11: the point set a group loop ends with is the same for every order   *)
(* in which its per-group steps run: the loop run again from the same      *)
(* coordinates over the rows in a permuted order ends with the result of   *)
(* the ascending order.                                                    *)
C11_LoopResultIndependentOfOrder ==
  phase = "IteratingGroups" /\ "pass" \in DOMAIN op /\ op.pass = 2 /\ op.i = op.n_groups =>
    locs = op.result

(* a rotate loop over several groups, run again in another order, that moved points *)
C11_Witness ==
  /\ phase = "IteratingGroups"
  /\ "pass" \in DOMAIN op
  /\ op.pass = 2
  /\ op.i = op.n_groups
  /\ op.name = "rotate"
  /\ n_channels = 2
  /\ locs # op.start
  /\ \E r \in 1..op.n_groups : op.order[r] # r


(* the steps that score the checked channels and write to all channels *)
ScoredSteps == {"align_group", "translate_group", "rotatexy_convolution_group"}

(* C12: a group's transform is written to every channel that holds the     *)
(* group's row or to none of them, also when the step ends with an error. *)
C12_GroupWrittenToAllChannelsOrNone ==
  last.name \in ScoredSteps =>
    LET holders == {j \in 1..Len(last.before) : last.row <= Len(group_index[j])}
    IN last.written \cap holders = {} \/ holders \subseteq last.written


(* C13: a macro-operation that ends with an error leaves every coordinate  *)
(* of every channel as it was when the operation started.                  *)
C13_ErrorLeavesCoordinatesUntouched ==
  [][phase # "Idle" /\ phase' = "Idle" /\ error' # "" => locs' = op.start]_vars


(* the offsets the centre-relative peak position can express on a side of n pixels *)
in_range(d, n) == -(n \div 2) <= d /\ d <= ((n + 1) \div 2) - 1

(* some non-zero circular shift maps the image onto itself *)
self_overlapping(image) ==
  \E s \in Frame(image.nb, image.na) \ {<<0, 0>>} :
    {<<Mod(p[1] + s[1], image.nb), Mod(p[2] + s[2], image.na)>> : p \in DOMAIN image.w} = DOMAIN image.w

peak_searched == last.name = "peak_search"

recovered == last.entry.da * op.os = op.da /\ last.entry.db * op.os = op.db

(* C14: for a query equal to the reference moved by (da, db) whole pixels,  *)
(* the peak search returns exactly (da, db), on even and odd side lengths,  *)
(* provided each offset lies in -floor(n/2) .. ceil(n/2)-1 for its side n   *)
(* and no non-zero circular shift maps the reference onto itself.           *)
C14_PeakSearchRecoversShiftInRange ==
  peak_searched /\ in_range(op.da, op.image.na) /\ in_range(op.db, op.image.nb) /\ ~self_overlapping(op.ref)
    => recovered

C14_Witness ==
  /\ peak_searched /\ ~self_overlapping(op.ref) /\ recovered
  /\ op.image.na = 2 /\ op.da = -1
  /\ op.image.nb = 3 /\ op.db = 1

(* C14 as stated: every whole-pixel offset is returned exactly *)
C14_PeakSearchRecoversEveryShift == peak_searched => recovered


(* C15: rotate_axis about an axis by an angle followed by rotate_axis about *)
(* the same axis by the opposite angle returns the original coordinates,   *)
(* for every axis, every quarter-turn angle and every pixel size.          *)
C15_RotateThenRotateBackIsIdentity ==
  last.name = "rotate_and_back" => last.back = op.v

C15_Witness ==
  /\ last.name = "rotate_and_back" /\ last.back = op.v /\ last.rot # op.v
  /\ op.axis = "y" /\ op.pixelsize = 2 /\ op.angle = 1 /\ op.v.z # 0 /\ op.v.x # 0


(* the points of the call that lie strictly inside the bounds on both axes *)
strictly_inside ==
  {i \in DOMAIN op.ab : /\ op.a_min < op.ab[i].a /\ op.ab[i].a < op.a_max
                        /\ op.b_min < op.ab[i].b /\ op.ab[i].b < op.b_max}

(* C17: render_histxyz returns an image of ceil(oversampling * (max - min)) *)
(* pixels along each axis, deposits exactly the points strictly inside the *)
(* bounds on both axes, and returns the number of points retained.         *)
C17_RenderShapeAndStrictBounds ==
  last.name = "render_histxyz" =>
    /\ last.image.na = CeilDiv(op.os * (op.a_max - op.a_min), 1)
    /\ last.image.nb = CeilDiv(op.os * (op.b_max - op.b_min), op.bden)
    /\ last.image.n = Cardinality(strictly_inside)
    /\ SumOver(DOMAIN last.image.w, last.image.w) = Cardinality(strictly_inside)
    /\ DOMAIN last.image.w = {<<FloorDiv(op.os * (op.ab[i].b - op.b_min), op.bden),
                                op.os * (op.ab[i].a - op.a_min)>> : i \in strictly_inside}

C17_Witness ==
  /\ last.name = "render_histxyz" /\ last.image.n = 1 /\ Len(op.ab) = 2
  /\ \E i \in DOMAIN op.ab : op.ab[i].a = op.a_max
  /\ op.bden = 2 /\ (op.b_max - op.b_min) % 2 = 1


(* C16: rotate_axis leaves the arrays it is given as they were, and while  *)
(* the candidate angles of a group are tried the stored coordinates of     *)
(* every channel stay as they were when the group was entered.             *)
C16_TrialRotationLeavesStoredCoordinates ==
  trial_running =>
    /\ locs = op.tstart
    /\ op.copied => op.original = members(op.tstart[op.tj], index_of(op.tj, op.trow))

C16_Witness ==
  /\ trial_running /\ op.copied /\ op.tj = 2 /\ op.tk = 1
  /\ op.rot # op.original /\ locs = op.tstart
  /\ op.original = members(locs[2], index_of(2, op.trow))


(* the reference of channel j with the rotated copies of the symmetry added *)
symmetrized_reference(j) ==
  LET plain == reference_images(op.proplane)[j]
      degrees == IF op.mode = "sym" THEN symmetry_degrees(op.symmetry) ELSE op.custom.degrees
  IN symmetrize(plain, plain, degrees)

(* C18: with a symmetry option chosen for rotate or convolution-rotate, the *)
(* reference every channel is scored against is the symmetrized one.        *)
C18_EveryChannelScoredAgainstSymmetrizedReference ==
  phase = "IteratingGroups" /\ op.name \in {"rotate", "convolution"} /\ op.i = 0
  /\ op.mode \in {"sym", "custom"} =>
    \A j \in 1..n_channels : op.CF_image_avg[j] = symmetrized_reference(j)


(* C19: when a file without a z column has been loaded as a channel, every *)
(* localization of that channel has the same z.                            *)
C19_ChannelWithoutZGetsConstantZ ==
  [][\A path \in Paths :
       Files[path].hasgroup /\ ~Files[path].hasz /\ add(path) =>
         \A a, b \in 1..Len(locs'[Len(locs')]) : locs'[Len(locs')][a].z = locs'[Len(locs')][b].z]_vars


(* C20: once a channel has been loaded, loading a further channel, with or *)
(* without z, leaves the pixel size as it was.                             *)
C20_PixelsizeKeptByFurtherLoads ==
  [][Len(locs) >= 1 /\ Len(locs') = Len(locs) + 1 => pixelsize' = pixelsize]_vars


(* the shift measured along a and b subtracted from the coordinates the    *)
(* plane renders on a and b; z is in pixel-size units, x and y are not     *)
shift_on_rendered_axes(p, proplane, da, db, px) ==
  CASE proplane = "xy" -> [p EXCEPT !.x = @ - da, !.y = @ - db]
    [] proplane = "yz" -> [p EXCEPT !.y = @ - da, !.z = @ - db * px]
    [] proplane = "xz" -> [p EXCEPT !.x = @ - da, !.z = @ - db * px]

(* C21: the write-back of align_group subtracts the shift measured along   *)
(* each image axis from the coordinate rendered on that axis (xy: x and y, *)
(* yz: y and z, xz: x and z), times the pixel size for z only.             *)
C21_ShiftSubtractedFromRenderedAxes ==
  stepped("align_group") =>
    \A j \in last.written : \A k \in index_of(j, last.row) :
      locs[j][k] = shift_on_rendered_axes(rotate_axis(op.rotaxis, last.before[j][k], last.rotfinal, pixelsize),
                                          op.proplane, last.dafinal, last.dbfinal, pixelsize)

(* C22: with the translate-only flag set, align_group subtracts both the   *)
(* mean shift along a and the mean shift along b of the winning row from   *)
(* the group's coordinates.                                                *)
C22_TranslateOnlyAppliesBothShifts ==
  stepped("align_group") /\ op.translate =>
    /\ last.dafinal = dafinal_of(last.table, last.maximumcc)
    /\ last.dbfinal = dbfinal_of(last.table, last.maximumcc)
    /\ \A j \in last.written : \A k \in index_of(j, last.row) :
         locs[j][k] = shift_loc(rotate_axis(op.rotaxis, last.before[j][k], last.rotfinal, pixelsize), op.proplane,
                                dafinal_of(last.table, last.maximumcc), dbfinal_of(last.table, last.maximumcc),
                                pixelsize)

(* the localizations whose coordinates the step has changed, as <<channel, index>> *)
changed_by_step ==
  {jk \in UNION {{j} \X (1..Len(locs'[j])) : j \in 1..Len(locs')} : locs'[jk[1]][jk[2]] # locs[jk[1]][jk[2]]}

(* C23: a per-group step changes only coordinates of localizations of one  *)
(* group g; the group index, the bounds and the locals of the loop, the    *)
(* reference templates among them, stay as they were.                      *)
C23_StepChangesOnlyItsGroup ==
  [][last' # last /\ last'.name \in GroupSteps =>
       /\ \E g \in Range(all_group_ids) : \A jk \in changed_by_step : locs[jk[1]][jk[2]].group = g
       /\ group_index' = group_index
       /\ bounds' = bounds
       /\ phase' = "IteratingGroups" => op' = [op EXCEPT !.i = @ + 1]]_vars

(* how many points of the row in channel j lay inside the rendering bounds *)
(* when the step rendered them at the angle                                *)
points_rendered(j, angle) ==
  LET g == members(last.before[j], index_of(j, last.row))
  IN render_planes([k \in 1..Len(g) |-> rotate_axis(op.rotaxis, g[k], angle, pixelsize)],
                   op.proplane, pixelsize, oversampling, bounds).n

(* C24: a checked channel with fewer than two points of the group inside   *)
(* the rendering bounds gets the score zero at every candidate angle, and  *)
(* the step goes on without an exception.                                  *)
C24_FewerThanTwoPointsScoreZero ==
  stepped("align_group") =>
    /\ error = ""
    /\ \A j \in enabled : \A k \in 1..Len(last.angles) :
         points_rendered(j, last.angles[k]) < 2 => last.table[k][j].xcorr = 0

(* the coordinate f of the row's members before the step, stacked over the *)
(* channels whose check box is set                                         *)
RECURSIVE stack_enabled(_, _, _)
stack_enabled(j, row, f) ==
  IF j > n_channels THEN << >>
  ELSE (IF checks[j] THEN Col(members(last.before[j], index_of(j, row)), f) ELSE << >>)
       \o stack_enabled(j + 1, row, f)

(* C25: one iteration of centre of mass subtracts from the members of the  *)
(* group in every channel the centroid of the group's localizations pooled *)
(* from the enabled channels only.                                         *)
C25_CentroidOverEnabledChannelsOnly ==
  stepped("centerofmass") /\ stack_enabled(1, last.row, "x") # << >> =>
    \A j \in 1..n_channels : \A k \in index_of(j, last.row) :
      /\ locs[j][k].x = last.before[j][k].x - Mean(stack_enabled(1, last.row, "x"))
      /\ locs[j][k].y = last.before[j][k].y - Mean(stack_enabled(1, last.row, "y"))
      /\ locs[j][k].z = last.before[j][k].z - Mean(stack_enabled(1, last.row, "z"))

(* rho is s times the root mean square of the values sq (already squared)  *)
(* of the channel, rounded up: the least rho >= 0 with rho^2 >= s^2 * mean *)
is_scaled_rms(rho, s, sq) ==
  /\ rho >= 0
  /\ rho * rho * Len(sq) >= s * s * SumSeq(sq)
  /\ rho > 0 => (rho - 1) * (rho - 1) * Len(sq) < s * s * SumSeq(sq)

(* rho is the largest of the channels' scaled root mean squares *)
is_max_scaled_rms(rho, s, sqs) ==
  /\ \E j \in DOMAIN sqs : is_scaled_rms(rho, s, sqs[j])
  /\ \A j \in DOMAIN sqs : \E q \in 0..rho : is_scaled_rms(q, s, sqs[j])

(* C26: when a centre-of-mass operation has run to its end, r is the       *)
(* maximum over the channels of 3 * RMS(x, y), r_z that of 5 * RMS(z), and *)
(* the bounds are t_min = -r, t_max = r, z_min = -r_z, z_max = r_z.        *)
C26_BoundsSymmetricAfterCentreOfMass ==
  [][phase = "IteratingGroups" /\ op.name = "centerofmass" /\ phase' = "Idle" /\ error' = "" =>
       /\ radius'.def
       /\ is_max_scaled_rms(radius'.r, 3,
            [j \in 1..Len(locs') |-> [k \in 1..Len(locs'[j]) |-> locs'[j][k].x * locs'[j][k].x
                                                                 + locs'[j][k].y * locs'[j][k].y]])
       /\ is_max_scaled_rms(radius'.r_z, 5,
            [j \in 1..Len(locs') |-> [k \in 1..Len(locs'[j]) |-> locs'[j][k].z * locs'[j][k].z]])
       /\ bounds' = [t_min |-> -radius'.r, t_max |-> radius'.r, z_min |-> -radius'.r_z, z_max |-> radius'.r_z]
       /\ bounds'.t_min <= 0 /\ 0 <= bounds'.t_max /\ bounds'.z_min <= 0 /\ 0 <= bounds'.z_max]_vars

C26_Witness ==
  /\ phase = "Idle" /\ error = "" /\ nops = 1 /\ Len(done) >= 1 /\ n_channels = 2 /\ last = NoLast
  /\ radius.def /\ radius.r > 0 /\ radius.r_z > 0 /\ radius.r = rms_r(locs[2])
  /\ bounds = [t_min |-> -radius.r, t_max |-> radius.r, z_min |-> -radius.r_z, z_max |-> radius.r_z]

(* the bounds b are those the end of centre of mass derives from the coordinates ls *)
radius_bounds(ls, b) ==
  /\ is_max_scaled_rms(b.t_max, 3,
       [j \in 1..Len(ls) |-> [k \in 1..Len(ls[j]) |-> ls[j][k].x * ls[j][k].x + ls[j][k].y * ls[j][k].y]])
  /\ is_max_scaled_rms(b.z_max, 5, [j \in 1..Len(ls) |-> [k \in 1..Len(ls[j]) |-> ls[j][k].z * ls[j][k].z]])
  /\ b.t_min = -b.t_max
  /\ b.z_min = -b.z_max

(* the bounds b are the smallest and largest coordinates of ls *)
extent_bounds(ls, b) ==
  LET xy == UNION {{ls[j][k].x : k \in 1..Len(ls[j])} \cup {ls[j][k].y : k \in 1..Len(ls[j])} : j \in 1..Len(ls)}
      zs == UNION {{ls[j][k].z : k \in 1..Len(ls[j])} : j \in 1..Len(ls)}
  IN /\ b.t_min \in xy /\ \A v \in xy : b.t_min <= v
     /\ b.t_max \in xy /\ \A v \in xy : v <= b.t_max
     /\ b.z_min \in zs /\ \A v \in zs : b.z_min <= v
     /\ b.z_max \in zs /\ \A v \in zs : v <= b.z_max

(* C27: when the global recentring at the end of translate has run, t_min, *)
(* t_max, z_min and z_max are recomputed from the recentred coordinates,   *)
(* so that the next macro-operation reads the recomputed values.           *)
C27_BoundsRecomputedAfterRecentring ==
  [][phase = "Recentring" /\ phase' = "Idle" /\ error' = "" =>
       radius_bounds(locs', bounds') \/ extent_bounds(locs', bounds')]_vars

(* C28: loading a file without group information changes neither the list *)
(* of channels nor the group indexes, the check boxes or the bounds, and   *)
(* the per-channel lists have the same length after every step.            *)
C28_FileWithoutGroupsRejected ==
  [][/\ \A path \in Paths :
          ~Files[path].hasgroup /\ add(path) =>
            UNCHANGED <<locs, group_index, checks, n_groups, pixelsize, bounds, radius>>
     /\ Len(group_index') = Len(locs')
     /\ Len(checks') = Len(locs')]_vars

C28_Witness ==
  /\ last.name = "msgBox" /\ phase = "Idle"
  /\ n_channels = 1 /\ Len(group_index) = 1 /\ Len(checks) = 1
  /\ bounds.t_min < bounds.t_max

(* C29: as long as channels have only been loaded, the shared bounds cover *)
(* every localization of every channel: t_min <= x, y <= t_max and         *)
(* z_min <= z <= z_max.                                                    *)
C29_BoundsCoverEveryLoadedChannel ==
  nops = 0 =>
    \A j \in 1..n_channels : \A k \in 1..Len(locs[j]) :
      /\ bounds.t_min <= locs[j][k].x /\ locs[j][k].x <= bounds.t_max
      /\ bounds.t_min <= locs[j][k].y /\ locs[j][k].y <= bounds.t_max
      /\ bounds.z_min <= locs[j][k].z /\ locs[j][k].z <= bounds.z_max

(* C30: every point render_hist or render_histxyz retains is deposited on  *)
(* a pixel inside the image: row index in 0 .. nb-1, column in 0 .. na-1.  *)
C30_RetainedPointsInsideImage ==
  last.name \in {"render_hist", "render_histxyz"} =>
    \A p \in DOMAIN last.image.w : /\ 0 <= p[1] /\ p[1] < last.image.nb
                                   /\ 0 <= p[2] /\ p[2] < last.image.na

C30_Witness ==
  /\ last.name = "render_histxyz" /\ op.bden = 2 /\ (op.b_max - op.b_min) % 2 = 1
  /\ \E p \in DOMAIN last.image.w : p[1] = last.image.nb - 1 /\ p[2] = last.image.na - 1
  /\ last.image.nb > 1

=============================================================================
